---------------------------- MODULE Spec2Model ----------------------------
(***************************************************************************)
(* Livefire: the path stalker (Stalk, stalker.watch, stalker.process) and  *)
(* the long-poll coordinator (processBrowsers in livefire.go, and its      *)
(* earlier form Watcher.Process), with the waitForRefresh callers.         *)
(***************************************************************************)
EXTENDS Integers, Sequences, FiniteSets, TLC

(* ------------------------------ bounds --------------------------------- *)
\* number of concurrent waitForRefresh requests
MaxCallers == 3
\* number of paths handed to Stalk
MaxTargets == 2
\* number of filesystem operations the environment performs
MaxFsOps == 3
\* number of change events delivered to the coordinator
MaxEvents == 2
\* number of connections the HTTP service accepts
MaxConns == 2
\* number of requests a connection is served
MaxRequests == 2
\* length of the data given to Seal
MaxData == 2
\* the times of the seal: quarter seconds from -MaxTick to MaxTick around the epoch
MaxTick == 4

(* --------------------------- program constants ------------------------- *)
\* make(chan string, 32)
ChCap == 32
\* make(chan Ticket, 16)
BrowsersCap == 16
\* the seal: [ iv ] [ exp ] [ mac ] [ data ], at 0, 16, 24 and 56
IvEnd == 16
ExpEnd == 24
MacEnd == 56

(* ------------------------------- paths --------------------------------- *)
\* A path is the sequence of its elements; the root "/" is the empty sequence.
Root == <<>>
\* filepath.Dir answers "." only for a path without any directory part
Dot == <<".">>
\* the working directory filepath.Abs joins relative paths to
Cwd == <<"d">>
\* the absolute paths of the modelled tree: /, /d, /d/a, /d/b, /e
Paths == {Root, <<"d">>, <<"d", "a">>, <<"d", "b">>, <<"e">>}
\* the arguments Stalk may be given: /d/a, /d/b, /d, /e, b, ../d/./a
Inputs ==
    { [abs |-> TRUE,  elems |-> <<"d", "a">>],
      [abs |-> TRUE,  elems |-> <<"d", "b">>],
      [abs |-> TRUE,  elems |-> <<"d">>],
      [abs |-> TRUE,  elems |-> <<"e">>],
      [abs |-> FALSE, elems |-> <<"b">>],
      [abs |-> FALSE, elems |-> <<"..", "d", ".", "a">>] }

\* filepath.Clean on a rooted path: "." is dropped, ".." removes the element
\* before it and is dropped at the root
RECURSIVE CleanFrom(_, _)
CleanFrom(acc, rest) ==
    IF rest = <<>> THEN acc
    ELSE LET h == Head(rest) IN
         IF h = "." THEN CleanFrom(acc, Tail(rest))
         ELSE IF h = ".."
              THEN CleanFrom(IF acc = <<>> THEN <<>>
                             ELSE SubSeq(acc, 1, Len(acc) - 1), Tail(rest))
              ELSE CleanFrom(Append(acc, h), Tail(rest))

Clean(elems) == CleanFrom(<<>>, elems)

\* filepath.Abs: an absolute path is cleaned, a relative one is joined to the
\* working directory first; the only failure is that of os.Getwd
Abs(p, getwdFails) ==
    IF p.abs THEN [err |-> FALSE, path |-> Clean(p.elems)]
    ELSE IF getwdFails THEN [err |-> TRUE, path |-> <<>>]
    ELSE [err |-> FALSE, path |-> Clean(Cwd \o p.elems)]

\* filepath.Dir of an absolute, clean path: the root is its own directory
Dir(path) ==
    IF path = Root THEN Root ELSE SubSeq(path, 1, Len(path) - 1)

\* the ancestor directories of a path, the root included
RECURSIVE Ancestors(_)
Ancestors(path) ==
    IF path = Root THEN {} ELSE {Dir(path)} \cup Ancestors(Dir(path))

(* ------------------------------ timestamps ----------------------------- *)
\* unix seconds: the values of time.Now().Unix(), of a file's ModTime and of
\* the t parameter of /.wait
Times == {0, 500, 1000}


(* ------------------------------- state --------------------------------- *)
VARIABLES
    variant,     \* which coordinator is built in: processBrowsers or Watcher
    mpc,         \* where livefireMain / Stalk stands
    getwdFails,  \* environment: os.Getwd fails, so filepath.Abs of a relative path does
    fsNil,       \* sr.fs is nil: fsnotify.NewWatcher failed
    err,         \* Stalk's err variable is non-nil
    nTargets,    \* iterations of Stalk's loop done so far
    targets,     \* the absolute forms of the paths Stalk has been given so far
    req,         \* sr.req: path -> requested?
    watches,     \* the notification subsystem's live subscriptions
    calls,       \* path -> number of fs.Watch calls made for it
    rejected,    \* paths whose fs.Watch call returned an error
    stream,      \* Stalk handed a non-nil channel to its caller
    worker,      \* go sr.process() has been started
    exists,      \* the filesystem: the paths that exist
    opsLeft,     \* filesystem operations the environment may still perform
    fsEvent,     \* sr.fs.Event: events delivered and not yet handled
    delivered,   \* every event the subsystem has delivered, in order
    ch,          \* sr.ch, the stalker's output stream
    now,         \* the wall clock: time.Now().Unix()
    cpc,         \* where the coordinator loop stands: off, select, send
    ts,          \* processBrowsers: the clock
    pending,     \* processBrowsers: the reply channels of the waiting tickets
    time,        \* Watcher.time
    tix,         \* Watcher.tix
    outbox,      \* the channel sends the running loop iteration still has to make
    clear,       \* the running iteration ends with pending = nil (w.tix = nil)
    browsers,    \* the browsers channel: tickets sent and not yet taken
    wpc,         \* caller -> where its waitForRefresh stands
    tkt,         \* caller -> the baseline of its ticket
    t2,          \* caller -> the value it received on its result channel
    clocks,      \* the clock's first value and its value after each event handled
    takenAt,     \* caller -> number of events handled before its ticket was taken
    closed,      \* the callers whose result channel has been closed
    doc,         \* the page presentContent rendered last: its Time and its reader
    fsError,     \* sr.fs.Error: errors delivered and not yet handled
    chClosed,    \* sr.ch has been closed
    log,         \* what the loop reading the subsystem did, in the order it did it
    rpc,         \* tarantula: where Service.Run stands
    started,     \* tarantula: svc.started
    listener,    \* tarantula: svc.listener: nil, open or closed
    wg,          \* tarantula: the counter of svc.pending
    conn,        \* tarantula: connection -> where its serving goroutine stands
    served,      \* tarantula: connection -> requests it has been served
    qpc,         \* seal: where the Seal / Unseal round stands
    sIn,         \* seal: the arguments of Seal and what crypto/rand answers
    sOut,        \* seal: what Seal returned
    held,        \* seal: the caller's sealed bytes, as they are after Unseal
    uNow,        \* seal: time.Now() inside Unseal
    uOut         \* seal: what Unseal returned

coordVars == <<variant, now, cpc, ts, pending, time, tix, outbox, clear,
               browsers, wpc, tkt, t2, clocks, takenAt, closed, doc>>

stalkerVars == <<mpc, getwdFails, fsNil, err, nTargets, targets, req, watches,
                 calls, rejected, stream, worker, exists, opsLeft, fsEvent,
                 delivered, ch, fsError, chClosed, log>>

\* the vendored tarantula package: the HTTP service and the seal
serviceVars == <<rpc, started, listener, wg, conn, served>>
sealVars == <<qpc, sIn, sOut, held, uNow, uOut>>
libVars == <<serviceVars, sealVars>>

vars == <<coordVars, stalkerVars, libVars>>

Kinds == {"create", "modify", "delete"}

\* the empty map: make(map[string]bool)
EmptyReq == [p \in {} |-> FALSE]

(* --------------------------- fsnotify.Watcher -------------------------- *)
\* The stalker's state as the recursion of watch threads it through.
SR == [req |-> req, watches |-> watches, calls |-> calls, rejected |-> rejected]

\* sr.fs.Watch(path): one registration call; it fails for a path that does
\* not exist, and the stalker drops the error it returns
fsWatch(s, path) ==
    [s EXCEPT !.calls[path] = @ + 1,
              !.watches = IF path \in exists THEN @ \cup {path} ELSE @,
              !.rejected = IF path \in exists THEN @ ELSE @ \cup {path}]

\* stalker.watch with the registration made before the registry is looked at
RECURSIVE watchTwice(_, _)
watchTwice(s, path) ==
    IF path \in DOMAIN s.req
    THEN fsWatch(s, path)
    ELSE LET s1 == fsWatch([s EXCEPT !.req = (path :> FALSE) @@ s.req], path)
             dir == Dir(path)
         IN  IF dir = Dot THEN s1 ELSE watchTwice(s1, dir)

\* stalker.watch with the walk ended below the root
RECURSIVE watchBelowRoot(_, _)
watchBelowRoot(s, path) ==
    IF path \in DOMAIN s.req
    THEN s
    ELSE LET s1 == fsWatch([s EXCEPT !.req = (path :> FALSE) @@ s.req], path)
             dir == Dir(path)
         IN  IF dir = Dot \/ dir = Root THEN s1 ELSE watchBelowRoot(s1, dir)

\* stalker.watch writing "sr.req[path] = false" before it looks the path up
RECURSIVE watchResets(_, _)
watchResets(s, path) ==
    IF path \in DOMAIN s.req
    THEN [s EXCEPT !.req[path] = FALSE]
    ELSE LET s1 == fsWatch([s EXCEPT !.req = (path :> FALSE) @@ s.req], path)
             dir == Dir(path)
         IN  IF dir = Dot THEN s1 ELSE watchResets(s1, dir)

\* stalker.watch: register path and then its directory, up to a path that is
\* already in the registry
RECURSIVE watch(_, _)
watch(s, path) ==
    IF path \in DOMAIN s.req
    THEN s
    ELSE LET s1 == fsWatch([s EXCEPT !.req = (path :> FALSE) @@ s.req], path)
             dir == Dir(path)
         IN  IF dir = Dot THEN s1 ELSE watch(s1, dir)

\* one pass of Stalk's loop body for an absolute path
stalkOne(s, path) ==
    LET s1 == watch(s, path)
    IN  [s1 EXCEPT !.req = (path :> TRUE) @@ s1.req]

(* -------------------------------- Stalk -------------------------------- *)
\* sr.fs, err = fsnotify.NewWatcher(): the error is kept in err and not looked at
StalkNew ==
    /\ mpc = "new"
    /\ \E failed \in BOOLEAN : fsNil' = failed /\ err' = failed
    /\ mpc' = "loop"
    /\ UNCHANGED <<coordVars, getwdFails, nTargets, targets, req, watches, calls,
                   rejected, stream, worker, exists, opsLeft, fsEvent,
                   delivered, ch>>
    /\ UNCHANGED <<fsError, chClosed, log, libVars>>

\* one iteration of "for _, path := range paths"
StalkPath(p) ==
    /\ mpc = "loop"
    /\ nTargets < MaxTargets
    /\ LET a == Abs(p, getwdFails) IN
       /\ err' = a.err
       /\ nTargets' = nTargets + 1
       /\ IF a.err
          THEN \* sr.fs.Close(); return nil, err
               /\ mpc' = IF fsNil THEN "panic" ELSE "failed"
               /\ watches' = {}
               /\ UNCHANGED <<targets, req, calls, rejected>>
          ELSE IF fsNil /\ a.path \notin DOMAIN req
          THEN \* sr.fs.Watch on the nil watcher
               /\ mpc' = "panic"
               /\ req' = (a.path :> FALSE) @@ req
               /\ targets' = targets \cup {a.path}
               /\ UNCHANGED <<watches, calls, rejected>>
          ELSE LET s == stalkOne(SR, a.path) IN
               /\ req' = s.req
               /\ watches' = s.watches
               /\ calls' = s.calls
               /\ rejected' = s.rejected
               /\ targets' = targets \cup {a.path}
               /\ mpc' = mpc
    /\ UNCHANGED <<coordVars, getwdFails, fsNil, stream, worker, exists, opsLeft,
                   fsEvent, delivered, ch>>
    /\ UNCHANGED <<fsError, chClosed, log, libVars>>

\* sr.ch = make(chan string, 32); go sr.process(); return sr.ch, err
\* and livefireMain's "if err != nil { return err }"
StalkReturn ==
    /\ mpc = "loop"
    /\ stream' = TRUE
    /\ worker' = TRUE
    /\ mpc' = IF err THEN "failed" ELSE "run"
    /\ UNCHANGED <<coordVars, getwdFails, fsNil, err, nTargets, targets, req,
                   watches, calls, rejected, exists, opsLeft, fsEvent,
                   delivered, ch>>
    /\ UNCHANGED <<fsError, chClosed, log, libVars>>

(* ----------------------------- environment ----------------------------- *)
\* The subsystem reports an operation on p to a subscription of p itself or
\* of p's directory.
Observed(p) == p \in watches \/ Dir(p) \in watches

HasChild(p) == \E q \in exists : q # Root /\ Dir(q) = p /\ q # p

\* One filesystem operation. A file that is removed takes its own
\* subscription with it: the subsystem follows a file only while it exists.
FsOp(p, kind) ==
    /\ mpc \in {"loop", "run"}
    /\ opsLeft > 0
    /\ p # Root
    /\ CASE kind = "create" -> p \notin exists /\ Dir(p) \in exists
         [] kind = "delete" -> p \in exists /\ ~HasChild(p)
         [] kind = "modify" -> p \in exists
    /\ opsLeft' = opsLeft - 1
    /\ exists' = CASE kind = "create" -> exists \cup {p}
                   [] kind = "delete" -> exists \ {p}
                   [] kind = "modify" -> exists
    /\ watches' = IF kind = "delete" THEN watches \ {p} ELSE watches
    /\ IF Observed(p)
       THEN /\ fsEvent' = Append(fsEvent, [Name |-> p, kind |-> kind])
            /\ delivered' = Append(delivered, [Name |-> p, kind |-> kind])
       ELSE UNCHANGED <<fsEvent, delivered>>
    /\ UNCHANGED <<coordVars, mpc, getwdFails, fsNil, err, nTargets, targets,
                   req, calls, rejected, stream, worker, ch>>
    /\ UNCHANGED <<fsError, chClosed, log, libVars>>

(* --------------------------- stalker.process --------------------------- *)
\* the body of processEvent past the lookup, as a list: the switch with its
\* sr.fs.Watch(event.Name) comes first, "sr.ch <- event.Name" second
Did(again, em, name) ==
    (IF again THEN <<[op |-> "watch", path |-> name]>> ELSE <<>>)
        \o (IF em THEN <<[op |-> "emit", path |-> name]>> ELSE <<>>)

\* stalker.processEvent without the test of em
processEventAll(s, event) ==
    IF event.Name \notin DOMAIN s.req
    THEN [sr |-> s, emit |-> FALSE, did |-> <<>>]
    ELSE [sr |-> IF event.kind = "create" THEN fsWatch(s, event.Name) ELSE s,
          emit |-> TRUE,
          did |-> Did(event.kind = "create", TRUE, event.Name)]

\* stalker.processEvent keeping removals to itself
processEventNoDelete(s, event) ==
    IF event.Name \notin DOMAIN s.req
    THEN [sr |-> s, emit |-> FALSE, did |-> <<>>]
    ELSE [sr |-> IF event.kind = "create" THEN fsWatch(s, event.Name) ELSE s,
          emit |-> s.req[event.Name] /\ event.kind # "delete",
          did |-> Did(event.kind = "create",
                      s.req[event.Name] /\ event.kind # "delete", event.Name)]

\* stalker.processEvent with the Watch call made for requested paths only
processEventRequested(s, event) ==
    IF event.Name \notin DOMAIN s.req
    THEN [sr |-> s, emit |-> FALSE, did |-> <<>>]
    ELSE LET again == event.kind = "create" /\ s.req[event.Name]
         IN  [sr |-> IF again THEN fsWatch(s, event.Name) ELSE s,
              emit |-> s.req[event.Name],
              did |-> Did(again, s.req[event.Name], event.Name)]

\* stalker.processEvent on the event at the head of sr.fs.Event: what the
\* stalker's state becomes, whether the name goes out on sr.ch, and what was
\* done in which order
processEvent(s, event) ==
    IF event.Name \notin DOMAIN s.req
    THEN [sr |-> s, emit |-> FALSE, did |-> <<>>]
    ELSE [sr |-> IF event.kind = "create" THEN fsWatch(s, event.Name) ELSE s,
          emit |-> s.req[event.Name],
          did |-> Did(event.kind = "create", s.req[event.Name], event.Name)]

\* case event := <-sr.fs.Event: sr.processEvent(event)
ProcessEvent ==
    /\ mpc = "run"
    /\ worker
    /\ fsEvent # <<>>
    /\ LET r == processEvent(SR, Head(fsEvent)) IN
       /\ r.emit => Len(ch) < ChCap
       /\ ch' = IF r.emit THEN Append(ch, Head(fsEvent).Name) ELSE ch
       /\ watches' = r.sr.watches
       /\ calls' = r.sr.calls
       /\ rejected' = r.sr.rejected
       /\ req' = r.sr.req
       /\ log' = log \o r.did
    /\ fsEvent' = Tail(fsEvent)
    /\ UNCHANGED <<coordVars, mpc, getwdFails, fsNil, err, nTargets, targets,
                   stream, worker, exists, opsLeft, delivered>>
    /\ UNCHANGED <<fsError, chClosed, libVars>>

\* the notification subsystem reports an error of its own
FsErr ==
    /\ mpc = "run"
    /\ opsLeft > 0
    /\ opsLeft' = opsLeft - 1
    /\ fsError' = fsError + 1
    /\ UNCHANGED <<coordVars, mpc, getwdFails, fsNil, err, nTargets, targets,
                   req, watches, calls, rejected, stream, worker, exists,
                   fsEvent, delivered, ch, chClosed, log, libVars>>

\* stalker.process leaving its loop on an error: the deferred close(sr.ch) runs
processErrorReturns == [running |-> FALSE, closed |-> TRUE]

\* stalker.processError, and the loop of process going round: the error is
\* printed, the worker keeps running and sr.ch stays open
processError == [running |-> TRUE, closed |-> FALSE]

\* case err := <-sr.fs.Error: sr.processError(err)
ProcessError ==
    /\ mpc = "run"
    /\ worker
    /\ fsError > 0
    /\ fsError' = fsError - 1
    /\ worker' = processError.running
    /\ chClosed' = (chClosed \/ processError.closed)
    /\ log' = Append(log, [op |-> "error"])
    /\ UNCHANGED <<coordVars, mpc, getwdFails, fsNil, err, nTargets, targets,
                   req, watches, calls, rejected, stream, exists, opsLeft,
                   fsEvent, delivered, ch, libVars>>

(* ----------------------------- coordinator ----------------------------- *)
\* A caller is named by its result channel; callers are numbered in the
\* order in which they hand their tickets over.
Callers == 1 .. MaxCallers
\* no value: a baseline not yet sent, a result not yet received
None == 0 - 1
\* no page is on record
NoDoc == [to |-> None, Time |-> None, seen |-> 0]

\* "case t := <-browsers" without its else: the answered ticket is kept too
pbTicketKeeps(loc, t) ==
    IF t.Time < loc.ts
    THEN [ts |-> loc.ts, pending |-> Append(loc.pending, t.Result),
          sends |-> <<[to |-> t.Result, val |-> loc.ts]>>, clear |-> FALSE]
    ELSE [ts |-> loc.ts, pending |-> Append(loc.pending, t.Result),
          sends |-> <<>>, clear |-> FALSE]

\* "case t := <-browsers" comparing with <= instead of <
pbTicketLeq(loc, t) ==
    IF t.Time <= loc.ts
    THEN [ts |-> loc.ts, pending |-> loc.pending,
          sends |-> <<[to |-> t.Result, val |-> loc.ts]>>, clear |-> FALSE]
    ELSE [ts |-> loc.ts, pending |-> Append(loc.pending, t.Result),
          sends |-> <<>>, clear |-> FALSE]

\* "case t := <-browsers" answering a stale ticket with its own baseline
pbTicketEcho(loc, t) ==
    IF t.Time < loc.ts
    THEN [ts |-> loc.ts, pending |-> loc.pending,
          sends |-> <<[to |-> t.Result, val |-> t.Time]>>, clear |-> FALSE]
    ELSE [ts |-> loc.ts, pending |-> Append(loc.pending, t.Result),
          sends |-> <<>>, clear |-> FALSE]

\* "case t := <-browsers" putting the new channel in front of the waiting ones
pbTicketPrepends(loc, t) ==
    IF t.Time < loc.ts
    THEN [ts |-> loc.ts, pending |-> loc.pending,
          sends |-> <<[to |-> t.Result, val |-> loc.ts]>>, clear |-> FALSE]
    ELSE [ts |-> loc.ts, pending |-> <<t.Result>> \o loc.pending,
          sends |-> <<>>, clear |-> FALSE]

\* "case t := <-browsers" releasing the waiting tickets before it answers a
\* stale one
pbTicketFlushes(loc, t) ==
    IF t.Time < loc.ts
    THEN [ts |-> loc.ts, pending |-> loc.pending,
          sends |-> [i \in 1 .. Len(loc.pending) |->
                        [to |-> loc.pending[i], val |-> loc.ts]]
                    \o <<[to |-> t.Result, val |-> loc.ts]>>,
          clear |-> TRUE]
    ELSE [ts |-> loc.ts, pending |-> Append(loc.pending, t.Result),
          sends |-> <<>>, clear |-> FALSE]

\* "case t := <-browsers" with the comparison turned round
pbTicketReversed(loc, t) ==
    IF t.Time > loc.ts
    THEN [ts |-> loc.ts, pending |-> loc.pending,
          sends |-> <<[to |-> t.Result, val |-> loc.ts]>>, clear |-> FALSE]
    ELSE [ts |-> loc.ts, pending |-> Append(loc.pending, t.Result),
          sends |-> <<>>, clear |-> FALSE]

\* processBrowsers, "case t := <-browsers": loc is the loop's ts and pending
pbTicket(loc, t) ==
    IF t.Time < loc.ts
    THEN [ts |-> loc.ts, pending |-> loc.pending,
          sends |-> <<[to |-> t.Result, val |-> loc.ts]>>, clear |-> FALSE]
    ELSE [ts |-> loc.ts, pending |-> Append(loc.pending, t.Result),
          sends |-> <<>>, clear |-> FALSE]

\* "case <-stalker" releasing with the old ts and reading the time afterwards
pbEventOldTs(loc, unix) ==
    [ts |-> unix, pending |-> loc.pending,
     sends |-> [i \in 1 .. Len(loc.pending) |->
                   [to |-> loc.pending[i], val |-> loc.ts]],
     clear |-> TRUE]

\* "case <-stalker" without "pending = nil"
pbEventNoClear(loc, unix) ==
    [ts |-> unix, pending |-> loc.pending,
     sends |-> [i \in 1 .. Len(loc.pending) |->
                   [to |-> loc.pending[i], val |-> unix]],
     clear |-> FALSE]

\* "case <-stalker" answering the ticket that has waited longest and no other
pbEventPopsOne(loc, unix) ==
    IF loc.pending = <<>>
    THEN [ts |-> unix, pending |-> <<>>, sends |-> <<>>, clear |-> FALSE]
    ELSE [ts |-> unix, pending |-> Tail(loc.pending),
          sends |-> <<[to |-> Head(loc.pending), val |-> unix]>>,
          clear |-> FALSE]

\* "case <-stalker" that takes the time and leaves the tickets waiting
pbEventForgets(loc, unix) ==
    [ts |-> unix, pending |-> loc.pending, sends |-> <<>>, clear |-> FALSE]

\* "case <-stalker" ranging over pending twice
pbEventTwice(loc, unix) ==
    [ts |-> unix, pending |-> loc.pending,
     sends |-> [i \in 1 .. Len(loc.pending) |->
                   [to |-> loc.pending[i], val |-> unix]]
               \o [i \in 1 .. Len(loc.pending) |->
                     [to |-> loc.pending[i], val |-> unix]],
     clear |-> TRUE]

\* processBrowsers, "case <-stalker": unix is time.Now().Unix()
pbEvent(loc, unix) ==
    [ts |-> unix, pending |-> loc.pending,
     sends |-> [i \in 1 .. Len(loc.pending) |->
                   [to |-> loc.pending[i], val |-> unix]],
     clear |-> TRUE]

\* Watcher.acceptTicket without the return after its send
acceptTicketKeeps(w, t) ==
    IF t.Time < w.time
    THEN [time |-> w.time, tix |-> Append(w.tix, t),
          sends |-> <<[to |-> t.Result, val |-> w.time]>>, clear |-> FALSE]
    ELSE [time |-> w.time, tix |-> Append(w.tix, t),
          sends |-> <<>>, clear |-> FALSE]

\* Watcher.acceptTicket: w is the Watcher's time and tix
acceptTicket(w, t) ==
    IF t.Time < w.time
    THEN [time |-> w.time, tix |-> w.tix,
          sends |-> <<[to |-> t.Result, val |-> w.time]>>, clear |-> FALSE]
    ELSE [time |-> w.time, tix |-> Append(w.tix, t),
          sends |-> <<>>, clear |-> FALSE]

\* Watcher.reportEvent without "if ts < w.time { return }"
reportEventNoGuard(w, stat) ==
    IF stat.err
    THEN [time |-> w.time, tix |-> w.tix, sends |-> <<>>, clear |-> FALSE]
    ELSE [time |-> stat.ModTime, tix |-> w.tix,
          sends |-> [i \in 1 .. Len(w.tix) |->
                        [to |-> w.tix[i].Result, val |-> stat.ModTime]],
          clear |-> TRUE]

\* Watcher.reportEvent returning on "ts <= w.time"
reportEventStrict(w, stat) ==
    IF stat.err
    THEN [time |-> w.time, tix |-> w.tix, sends |-> <<>>, clear |-> FALSE]
    ELSE IF stat.ModTime <= w.time
    THEN [time |-> w.time, tix |-> w.tix, sends |-> <<>>, clear |-> FALSE]
    ELSE [time |-> stat.ModTime, tix |-> w.tix,
          sends |-> [i \in 1 .. Len(w.tix) |->
                        [to |-> w.tix[i].Result, val |-> stat.ModTime]],
          clear |-> TRUE]

\* Watcher.reportEvent: stat is what os.Stat(name) answers
reportEvent(w, stat) ==
    IF stat.err
    THEN [time |-> w.time, tix |-> w.tix, sends |-> <<>>, clear |-> FALSE]
    ELSE IF stat.ModTime < w.time
    THEN [time |-> w.time, tix |-> w.tix, sends |-> <<>>, clear |-> FALSE]
    ELSE [time |-> stat.ModTime, tix |-> w.tix,
          sends |-> [i \in 1 .. Len(w.tix) |->
                        [to |-> w.tix[i].Result, val |-> stat.ModTime]],
          clear |-> TRUE]

\* the coordinator's clock and its waiting reply channels, in either variant
Clock == IF variant = "processBrowsers" THEN ts ELSE time
Pending ==
    IF variant = "processBrowsers" THEN pending
    ELSE [i \in 1 .. Len(tix) |-> tix[i].Result]

InBrowsers(c) == \E i \in 1 .. Len(browsers) : browsers[i].Result = c
\* the loop has taken c's ticket
Taken(c) == wpc[c] # "idle" /\ ~InBrowsers(c)

\* go processBrowsers(stalker): ts := time.Now().Unix()
PBStart ==
    /\ variant = "processBrowsers"
    /\ mpc = "run"
    /\ cpc = "off"
    /\ ts' = now
    /\ clocks' = <<now>>
    /\ cpc' = "select"
    /\ UNCHANGED <<doc, variant, now, pending, time, tix, outbox, clear, browsers,
                   wpc, tkt, t2, takenAt>>
    /\ UNCHANGED stalkerVars
    /\ UNCHANGED <<closed, libVars>>

\* what a loop iteration of processBrowsers leaves behind: it either goes on
\* sending (blocked in a channel send) or is back at the select
pbIterate(r) ==
    /\ ts' = r.ts
    /\ IF r.sends = <<>>
       THEN /\ cpc' = "select"
            /\ pending' = IF r.clear THEN <<>> ELSE r.pending
            /\ outbox' = <<>>
            /\ clear' = FALSE
       ELSE /\ cpc' = "send"
            /\ pending' = r.pending
            /\ outbox' = r.sends
            /\ clear' = r.clear

\* case t := <-browsers
PBTicket ==
    /\ variant = "processBrowsers"
    /\ cpc = "select"
    /\ browsers # <<>>
    /\ pbIterate(pbTicket([ts |-> ts, pending |-> pending], Head(browsers)))
    /\ browsers' = Tail(browsers)
    /\ takenAt' = [takenAt EXCEPT ![Head(browsers).Result] = Len(clocks) - 1]
    \* the page is on record until the Wait of its reader has been taken
    /\ doc' = IF Head(browsers).Result = doc.to THEN NoDoc ELSE doc
    /\ UNCHANGED <<variant, now, time, tix, wpc, tkt, t2, clocks>>
    /\ UNCHANGED stalkerVars
    /\ UNCHANGED <<closed, libVars>>

\* case <-stalker
PBEvent ==
    /\ variant = "processBrowsers"
    /\ cpc = "select"
    /\ ch # <<>>
    /\ pbIterate(pbEvent([ts |-> ts, pending |-> pending], now))
    /\ ch' = Tail(ch)
    /\ clocks' = Append(clocks, ts')
    /\ UNCHANGED <<doc, variant, now, time, tix, browsers, wpc, tkt, t2, takenAt>>
    /\ UNCHANGED <<mpc, getwdFails, fsNil, err, nTargets, targets, req, watches,
                   calls, rejected, stream, worker, exists, opsLeft, fsEvent,
                   delivered>>
    /\ UNCHANGED <<closed, fsError, chClosed, log, libVars>>

\* go watcher.Process(): w.time = 0
WStart ==
    /\ variant = "Watcher"
    /\ mpc = "run"
    /\ cpc = "off"
    /\ time' = 0
    /\ clocks' = <<0>>
    /\ cpc' = "select"
    /\ UNCHANGED <<doc, variant, now, ts, pending, tix, outbox, clear, browsers,
                   wpc, tkt, t2, takenAt>>
    /\ UNCHANGED stalkerVars
    /\ UNCHANGED <<closed, libVars>>

wIterate(r) ==
    /\ time' = r.time
    /\ IF r.sends = <<>>
       THEN /\ cpc' = "select"
            /\ tix' = IF r.clear THEN <<>> ELSE r.tix
            /\ outbox' = <<>>
            /\ clear' = FALSE
       ELSE /\ cpc' = "send"
            /\ tix' = r.tix
            /\ outbox' = r.sends
            /\ clear' = r.clear

\* waitForRefresh's "watcher.Add <- &Ticket{ts, result}" meeting Process's
\* "case t := <-w.Add: w.acceptTicket(t)": the channel is unbuffered
WAdd(c, b) ==
    /\ variant = "Watcher"
    /\ mpc = "run"
    /\ cpc = "select"
    /\ wpc[c] = "idle"
    /\ \A d \in Callers : d < c => wpc[d] # "idle"
    /\ wIterate(acceptTicket([time |-> time, tix |-> tix],
                             [Time |-> b, Result |-> c]))
    /\ wpc' = [wpc EXCEPT ![c] = "sent"]
    /\ tkt' = [tkt EXCEPT ![c] = b]
    /\ takenAt' = [takenAt EXCEPT ![c] = Len(clocks) - 1]
    /\ UNCHANGED <<doc, variant, now, ts, pending, browsers, t2, clocks>>
    /\ UNCHANGED stalkerVars
    /\ UNCHANGED <<closed, libVars>>

\* case evt := <-w.Fs.Event: w.reportEvent(evt.Name)
WEvent(stat) ==
    /\ variant = "Watcher"
    /\ cpc = "select"
    /\ fsEvent # <<>>
    /\ stat.err = (Head(fsEvent).Name \notin exists)
    /\ wIterate(reportEvent([time |-> time, tix |-> tix], stat))
    /\ fsEvent' = Tail(fsEvent)
    /\ clocks' = Append(clocks, time')
    /\ UNCHANGED <<doc, variant, now, ts, pending, browsers, wpc, tkt, t2, takenAt>>
    /\ UNCHANGED <<mpc, getwdFails, fsNil, err, nTargets, targets, req, watches,
                   calls, rejected, stream, worker, exists, opsLeft, delivered,
                   ch>>
    /\ UNCHANGED <<closed, fsError, chClosed, log, libVars>>

\* case err := <-w.Fs.Error: log.Println("<watcher>", err.Error())
WError ==
    /\ variant = "Watcher"
    /\ cpc = "select"
    /\ fsError > 0
    /\ fsError' = fsError - 1
    /\ log' = Append(log, [op |-> "error"])
    /\ UNCHANGED <<coordVars, mpc, getwdFails, fsNil, err, nTargets, targets,
                   req, watches, calls, rejected, stream, worker, exists,
                   opsLeft, fsEvent, delivered, ch, chClosed, libVars>>

\* the coordinator closing the result channel where it sends on it
replyClose(m) == [closes |-> TRUE, val |-> 0]

\* "t.Result <- ts", "p <- ts", "t.Result <- w.time": what the coordinator does
\* with a result channel is a send of the clock; the channel stays open
reply(m) == [closes |-> FALSE, val |-> m.val]

\* the answers of os.Stat
Stats == [err : {FALSE}, ModTime : Times] \cup [err : {TRUE}, ModTime : {0}]

\* A channel send of the coordinator ("t.Result <- ts", "p <- ts") meeting
\* the caller's "t2, ok := <-result"; the send after the last one of a
\* release is followed by "pending = nil"
Deliver ==
    /\ cpc = "send"
    /\ LET m == Head(outbox)
           r == reply(m)
       IN  /\ wpc[m.to] = "recv"
           /\ t2' = [t2 EXCEPT ![m.to] = r.val]
           \* if !ok { return nil, HttpError{500, "turned away while waiting"} }
           /\ wpc' = [wpc EXCEPT ![m.to] = IF r.closes THEN "turned" ELSE "done"]
           /\ closed' = IF r.closes THEN closed \cup {m.to} ELSE closed
    /\ outbox' = Tail(outbox)
    /\ IF Tail(outbox) = <<>>
       THEN /\ cpc' = "select"
            /\ clear' = FALSE
            /\ pending' = IF clear THEN <<>> ELSE pending
            /\ tix' = IF clear THEN <<>> ELSE tix
       ELSE UNCHANGED <<cpc, clear, pending, tix>>
    /\ UNCHANGED <<doc, variant, now, ts, time, browsers, tkt, clocks, takenAt>>
    /\ UNCHANGED stalkerVars
    /\ UNCHANGED libVars

(* ---------------------------- waitForRefresh --------------------------- *)
\* waitForRefresh putting its result channel into the loop's pending slice
\* itself, next to handing the ticket over
SendShared(c, b) ==
    /\ variant = "processBrowsers"
    /\ mpc = "run"
    /\ wpc[c] = "idle"
    /\ \A d \in Callers : d < c => wpc[d] # "idle"
    /\ Len(browsers) < BrowsersCap
    /\ browsers' = Append(browsers, [Time |-> b, Result |-> c])
    /\ pending' = IF cpc = "select" THEN Append(pending, c) ELSE pending
    /\ wpc' = [wpc EXCEPT ![c] = "sent"]
    /\ tkt' = [tkt EXCEPT ![c] = b]
    /\ UNCHANGED <<doc, variant, now, cpc, ts, time, tix, outbox, clear,
                   t2, clocks, takenAt>>
    /\ UNCHANGED stalkerVars
    /\ UNCHANGED <<closed, libVars>>

\* result := make(chan int64); browsers <- Ticket{ts, result}
Send(c, b) ==
    /\ variant = "processBrowsers"
    /\ mpc = "run"
    /\ wpc[c] = "idle"
    /\ \A d \in Callers : d < c => wpc[d] # "idle"
    /\ Len(browsers) < BrowsersCap
    /\ browsers' = Append(browsers, [Time |-> b, Result |-> c])
    /\ wpc' = [wpc EXCEPT ![c] = "sent"]
    /\ tkt' = [tkt EXCEPT ![c] = b]
    /\ UNCHANGED <<doc, variant, now, cpc, ts, pending, time, tix, outbox, clear,
                   t2, clocks, takenAt>>
    /\ UNCHANGED stalkerVars
    /\ UNCHANGED <<closed, libVars>>

\* the caller reaches "t2, ok := <-result" and waits there
Park(c) ==
    /\ wpc[c] = "sent"
    /\ wpc' = [wpc EXCEPT ![c] = "recv"]
    /\ UNCHANGED <<doc, variant, now, cpc, ts, pending, time, tix, outbox, clear,
                   browsers, tkt, t2, clocks, takenAt>>
    /\ UNCHANGED stalkerVars
    /\ UNCHANGED <<closed, libVars>>

(* ---------------------------- presentContent --------------------------- *)
\* presentContent: doc.Time = int64(time.Now().Unix()). The page goes to the
\* caller that waits next, whose script asks for "/.wait?t=" + {{.Time}};
\* seen is the number of clock values the loop has had by then.
PresentContent(c) ==
    /\ variant = "processBrowsers"
    /\ mpc = "run"
    /\ doc = NoDoc
    /\ wpc[c] = "idle"
    /\ \A d \in Callers : d < c => wpc[d] # "idle"
    /\ doc' = [to |-> c, Time |-> now, seen |-> Len(clocks)]
    /\ UNCHANGED <<variant, now, cpc, ts, pending, time, tix, outbox, clear,
                   browsers, wpc, tkt, t2, clocks, takenAt, closed>>
    /\ UNCHANGED stalkerVars
    /\ UNCHANGED libVars

\* the wall clock moves on
Tick ==
    /\ variant = "processBrowsers"
    /\ mpc = "run"
    /\ \E t \in Times : t > now /\ now' = t
    /\ UNCHANGED <<doc, variant, cpc, ts, pending, time, tix, outbox, clear,
                   browsers, wpc, tkt, t2, clocks, takenAt>>
    /\ UNCHANGED stalkerVars
    /\ UNCHANGED <<closed, libVars>>

\* the wall clock is set back
StepBack ==
    /\ variant = "processBrowsers"
    /\ mpc = "run"
    /\ \E t \in Times : t < now /\ now' = t
    /\ UNCHANGED <<doc, variant, cpc, ts, pending, time, tix, outbox, clear,
                   browsers, wpc, tkt, t2, clocks, takenAt, closed>>
    /\ UNCHANGED stalkerVars
    /\ UNCHANGED libVars

(* ---------------------------- specifications --------------------------- *)
NoCalls == [p \in Paths |-> 0]

\* nothing is being sealed
SealIdle ==
    /\ qpc = "idle"
    /\ sIn = <<>>
    /\ sOut = <<>>
    /\ held = <<>>
    /\ uNow = 0
    /\ uOut = <<>>

\* no HTTP service has been made
ServiceIdle ==
    /\ rpc = "idle"
    /\ started = FALSE
    /\ listener = "nil"
    /\ wg = 0
    /\ conn = <<>>
    /\ served = <<>>

\* the vendored package is not in use
LibIdle == ServiceIdle /\ SealIdle

InitCoordVars ==
    /\ now = 0
    /\ cpc = "off"
    /\ ts = 0
    /\ pending = <<>>
    /\ time = 0
    /\ tix = <<>>
    /\ outbox = <<>>
    /\ clear = FALSE
    /\ browsers = <<>>
    /\ wpc = [c \in Callers |-> "idle"]
    /\ tkt = [c \in Callers |-> None]
    /\ t2 = [c \in Callers |-> None]
    /\ clocks = <<>>
    /\ takenAt = [c \in Callers |-> None]
    /\ closed = {}
    /\ doc = NoDoc

\* livefireMain is about to call Stalk
InitStalker ==
    /\ variant = "processBrowsers"
    /\ mpc = "new"
    /\ getwdFails \in BOOLEAN
    /\ fsNil = FALSE
    /\ err = FALSE
    /\ nTargets = 0
    /\ targets = {}
    /\ req = EmptyReq
    /\ watches = {}
    /\ calls = NoCalls
    /\ rejected = {}
    /\ stream = FALSE
    /\ worker = FALSE
    /\ exists \in {Paths, Paths \ {<<"d", "b">>}}
    /\ opsLeft = MaxFsOps
    /\ fsEvent = <<>>
    /\ delivered = <<>>
    /\ ch = <<>>
    /\ fsError = 0
    /\ chClosed = FALSE
    /\ log = <<>>
    /\ InitCoordVars
    /\ LibIdle

NextStalker ==
    \/ StalkNew
    \/ \E p \in Inputs : StalkPath(p)
    \/ StalkReturn
    \/ \E p \in Paths, k \in Kinds : FsOp(p, k)
    \/ ProcessEvent
    \/ FsErr
    \/ ProcessError

\* the stalker from the call of Stalk on, its stream left unread
SpecStalker == InitStalker /\ [][NextStalker]_vars

\* the file the running service watches
Target == <<"d", "a">>

\* the service is up: Stalk(Target) has returned (processBrowsers), or
\* watcher.Fs.Watch(Target) has (Watcher)
InitCoord ==
    /\ variant \in {"processBrowsers", "Watcher"}
    /\ mpc = "run"
    /\ getwdFails = FALSE
    /\ fsNil = FALSE
    /\ err = FALSE
    /\ exists = Paths
    /\ nTargets = 1
    /\ targets = {Target}
    /\ LET s == IF variant = "processBrowsers"
                THEN stalkOne([req |-> EmptyReq, watches |-> {},
                               calls |-> NoCalls, rejected |-> {}], Target)
                ELSE fsWatch([req |-> EmptyReq, watches |-> {},
                              calls |-> NoCalls, rejected |-> {}], Target)
       IN  /\ req = s.req
           /\ watches = s.watches
           /\ calls = s.calls
           /\ rejected = s.rejected
    /\ stream = (variant = "processBrowsers")
    /\ worker = (variant = "processBrowsers")
    /\ opsLeft = MaxEvents
    /\ fsEvent = <<>>
    /\ delivered = <<>>
    /\ ch = <<>>
    /\ fsError = 0
    /\ chClosed = FALSE
    /\ log = <<>>
    /\ InitCoordVars
    /\ LibIdle

NextCoord ==
    \/ FsOp(Target, "modify")
    \/ ProcessEvent
    \/ PBStart
    \/ PBTicket
    \/ PBEvent
    \/ WStart
    \/ \E c \in Callers, b \in Times : WAdd(c, b)
    \/ \E st \in Stats : WEvent(st)
    \/ Deliver
    \/ \E c \in Callers, b \in Times : Send(c, b)
    \/ \E c \in Callers : Park(c)
    \/ Tick
    \/ StepBack
    \/ FsErr
    \/ ProcessError
    \/ WError

\* the coordinator, its callers and the events of one watched file
SpecCoord == InitCoord /\ [][NextCoord]_vars

\* a step the coordinator's goroutine can take once it is scheduled: the start
\* of the loop, a receive from a channel that holds something, a reply send
\* whose receiver is waiting
LoopStep ==
    \/ PBStart \/ PBTicket \/ PBEvent
    \/ WStart \/ (\E st \in Stats : WEvent(st))
    \/ Deliver

\* the coordinator, its callers and the changes of the watched file, with a
\* wall clock that only moves forward and a watch subsystem without errors
NextFair ==
    \/ FsOp(Target, "modify")
    \/ ProcessEvent
    \/ PBStart
    \/ PBTicket
    \/ PBEvent
    \/ WStart
    \/ \E c \in Callers, b \in Times : WAdd(c, b)
    \/ \E st \in Stats : WEvent(st)
    \/ Deliver
    \/ \E c \in Callers, b \in Times : Send(c, b)
    \/ \E c \in Callers : Park(c)
    \/ Tick

\* a scheduler that lets every goroutine that can run do so: the coordinator
\* loop, and each caller between handing its ticket over and its receive
SpecCoordFair ==
    /\ InitCoord
    /\ [][NextFair]_vars
    /\ WF_vars(LoopStep)
    /\ \A c \in Callers : WF_vars(Park(c))

InitPage == InitCoord /\ variant = "processBrowsers"

NextPage ==
    \/ FsOp(Target, "modify")
    \/ ProcessEvent
    \/ PBStart
    \/ PBTicket
    \/ PBEvent
    \/ Deliver
    \/ \E c \in Callers : PresentContent(c)
    \/ \E c \in Callers, b \in Times : Send(c, b)
    \/ \E c \in Callers : Park(c)
    \/ Tick

\* processBrowsers and the pages rendered for its callers, with a wall clock
\* that only moves forward and a watch subsystem that reports no errors
SpecPage == InitPage /\ [][NextPage]_vars

(* -------------------------- tarantula.Service -------------------------- *)
Conns == 1 .. MaxConns

\* Service.Start: svc is the service's started flag and listener, ok is
\* whether net.Listen succeeds
Start(svc, ok) ==
    IF svc.started THEN [started |-> TRUE, listener |-> svc.listener, err |-> FALSE]
    ELSE IF ~ok THEN [started |-> FALSE, listener |-> "nil", err |-> TRUE]
    ELSE [started |-> TRUE, listener |-> "open", err |-> FALSE]

\* livefireMain: err = svc.Start(); if err != nil { return err }
MainStart(ok) ==
    /\ rpc = "init"
    /\ ~started
    /\ LET r == Start([started |-> started, listener |-> listener], ok) IN
       /\ started' = r.started
       /\ listener' = r.listener
       /\ rpc' = IF r.err THEN "failed" ELSE "init"
    /\ UNCHANGED <<wg, conn, served>>
    /\ UNCHANGED <<coordVars, stalkerVars, sealVars>>

\* Service.Run: svc.Start(), its error dropped, then svc.server.Serve on the
\* listener, which is nil if net.Listen failed
RunServe(ok) ==
    /\ rpc = "init"
    /\ LET r == Start([started |-> started, listener |-> listener], ok) IN
       /\ started' = r.started
       /\ listener' = r.listener
       /\ rpc' = IF r.listener = "nil" THEN "panic" ELSE "serve"
    /\ UNCHANGED <<wg, conn, served>>
    /\ UNCHANGED <<coordVars, stalkerVars, sealVars>>

\* Service.Stop, called directly or by handleSignals on SIGUSR1:
\* svc.listener.Close()
Stop ==
    /\ rpc \in {"init", "serve"}
    /\ listener = "open"
    /\ listener' = "closed"
    /\ UNCHANGED <<rpc, started, wg, conn, served>>
    /\ UNCHANGED <<coordVars, stalkerVars, sealVars>>

\* server.Serve accepts a connection and starts the goroutine that serves
\* it; the goroutine reads a request and is about to call svc.ServeHTTP
Accept(c) ==
    /\ rpc = "serve"
    /\ listener = "open"
    /\ conn[c] = "none"
    /\ \A d \in Conns : d < c => conn[d] # "none"
    /\ conn' = [conn EXCEPT ![c] = "accepted"]
    /\ UNCHANGED <<rpc, started, listener, wg, served>>
    /\ UNCHANGED <<coordVars, stalkerVars, sealVars>>

\* server.Serve returns once Accept fails on the closed listener
ServeReturns ==
    /\ rpc = "serve"
    /\ listener = "closed"
    /\ rpc' = "wait"
    /\ UNCHANGED <<started, listener, wg, conn, served>>
    /\ UNCHANGED <<coordVars, stalkerVars, sealVars>>

\* ServeHTTP: svc.pending.Add(1), and the bound function starts
ServeHTTP(c) ==
    /\ conn[c] = "accepted"
    /\ wg' = wg + 1
    /\ conn' = [conn EXCEPT ![c] = "serving"]
    /\ UNCHANGED <<rpc, started, listener, served>>
    /\ UNCHANGED <<coordVars, stalkerVars, sealVars>>

\* ServeHTTP returns: the deferred svc.pending.Done(); the connection is kept
\* alive
ServeHTTPDone(c) ==
    /\ conn[c] = "serving"
    /\ wg' = wg - 1
    /\ conn' = [conn EXCEPT ![c] = "idle"]
    /\ served' = [served EXCEPT ![c] = @ + 1]
    /\ UNCHANGED <<rpc, started, listener>>
    /\ UNCHANGED <<coordVars, stalkerVars, sealVars>>

\* the client sends another request on its connection, or hangs up
NextRequest(c) ==
    /\ conn[c] = "idle"
    /\ served[c] < MaxRequests
    /\ conn' = [conn EXCEPT ![c] = "accepted"]
    /\ UNCHANGED <<rpc, started, listener, wg, served>>
    /\ UNCHANGED <<coordVars, stalkerVars, sealVars>>

HangUp(c) ==
    /\ conn[c] = "idle"
    /\ conn' = [conn EXCEPT ![c] = "gone"]
    /\ UNCHANGED <<rpc, started, listener, wg, served>>
    /\ UNCHANGED <<coordVars, stalkerVars, sealVars>>

\* waitPending: svc.pending.Wait() returns when the counter is zero; then
\* Run returns
waitPending(svc, counter) == ~svc.started \/ counter = 0

WaitPending ==
    /\ rpc = "wait"
    /\ waitPending([started |-> started, listener |-> listener], wg)
    /\ rpc' = "returned"
    /\ UNCHANGED <<started, listener, wg, conn, served>>
    /\ UNCHANGED <<coordVars, stalkerVars, sealVars>>

\* the watcher and the coordinator at rest
AppIdle ==
    /\ variant = "processBrowsers"
    /\ mpc = "new"
    /\ getwdFails = FALSE
    /\ fsNil = FALSE
    /\ err = FALSE
    /\ nTargets = 0
    /\ targets = {}
    /\ req = EmptyReq
    /\ watches = {}
    /\ calls = NoCalls
    /\ rejected = {}
    /\ stream = FALSE
    /\ worker = FALSE
    /\ exists = Paths
    /\ opsLeft = 0
    /\ fsEvent = <<>>
    /\ delivered = <<>>
    /\ ch = <<>>
    /\ fsError = 0
    /\ chClosed = FALSE
    /\ log = <<>>
    /\ InitCoordVars

\* svc := tarantula.NewService(cfg.Bind)
InitService ==
    /\ rpc = "init"
    /\ started = FALSE
    /\ listener = "nil"
    /\ wg = 0
    /\ conn = [c \in Conns |-> "none"]
    /\ served = [c \in Conns |-> 0]
    /\ SealIdle
    /\ AppIdle

NextService ==
    \/ \E ok \in BOOLEAN : MainStart(ok)
    \/ \E ok \in BOOLEAN : RunServe(ok)
    \/ Stop
    \/ \E c \in Conns : Accept(c)
    \/ ServeReturns
    \/ \E c \in Conns : ServeHTTP(c)
    \/ \E c \in Conns : ServeHTTPDone(c)
    \/ \E c \in Conns : NextRequest(c)
    \/ \E c \in Conns : HangUp(c)
    \/ WaitPending

\* the HTTP service from NewService to the return of Run
SpecService == InitService /\ [][NextService]_vars

(* ------------------------------- the seal ------------------------------ *)
Zeros(n) == [i \in 1 .. n |-> 0]

\* the exclusive or of two bytes
RECURSIVE Xor(_, _)
Xor(a, b) ==
    IF a = 0 THEN b
    ELSE IF b = 0 THEN a
    ELSE ((a + b) % 2) + 2 * Xor(a \div 2, b \div 2)

RECURSIVE Sum(_)
Sum(bytes) == IF bytes = <<>> THEN 0 ELSE Head(bytes) + Sum(Tail(bytes))

\* a time is a number of quarter seconds since the epoch; Time.Unix() is the
\* whole second at or below it, time.Unix(sec, 0) the start of a second
Unix(t) == IF t >= 0 THEN t \div 4 ELSE 0 - ((3 - t) \div 4)
AtSecond(sec) == 4 * sec

\* the eight bytes of a non-negative number below 2^24, lowest first
LeBytes(n) ==
    [k \in 1 .. 8 |-> IF k <= 3 THEN (n \div (256 ^ (k - 1))) % 256 ELSE 0]

\* binary.LittleEndian.PutUint64(b, uint64(sec)): a negative second wraps
\* to its two's complement
PutUint64(sec) ==
    IF sec >= 0 THEN LeBytes(sec)
    ELSE [k \in 1 .. 8 |-> 255 - LeBytes((0 - sec) - 1)[k]]

RECURSIVE LeValue(_)
LeValue(bytes) ==
    IF bytes = <<>> THEN 0 ELSE Head(bytes) + 256 * LeValue(Tail(bytes))

\* int64(binary.LittleEndian.Uint64(b)), for values between -2^24 and 2^24
Int64(bytes) ==
    IF bytes[8] >= 128
    THEN 0 - (LeValue(SubSeq([k \in 1 .. 8 |-> 255 - bytes[k]], 1, 3)) + 1)
    ELSE LeValue(SubSeq(bytes, 1, 3))

\* hmac.New(sha256.New, auth) over a message: 32 bytes that depend on the
\* key and on every byte of the message and its place
RECURSIVE Mix(_, _)
Mix(msg, i) ==
    IF msg = <<>> THEN 0 ELSE (i * (Head(msg) + 1) + Mix(Tail(msg), i + 1)) % 251
Hmac(auth, msg) ==
    LET digest == Sum(auth) * 3 + Len(auth) + Mix(msg, 1) * 7
    IN  [j \in 1 .. MacEnd - ExpEnd |-> (digest + j * 13) % 256]

\* aes.NewCipher(key): the key must be 16, 24 or 32 bytes long
NewCipherFails(key) == Len(key) \notin {16, 24, 32}

\* cipher.NewCTR(b, iv).XORKeyStream(dst, src): src xor a key stream that
\* depends on the key, the iv and the place
KeyStream(block, i) == (block + i * 11 + 3) % 256
XORKeyStream(key, iv, src) ==
    LET block == Sum(key) * 5 + Sum(iv) * 7 + Mix(iv, 1)
    IN  [i \in 1 .. Len(src) |-> Xor(src[i], KeyStream(block, i))]

\* Seal: rnd is what rand.Read answers
Seal(auth, key, data, exp, rnd) ==
    IF rnd.err THEN [seal |-> <<>>, err |-> "rand"]
    ELSE LET stamped == rnd.iv \o PutUint64(Unix(exp))
             mac == Hmac(auth, stamped \o data)
         IN  IF NewCipherFails(key) THEN [seal |-> <<>>, err |-> "key"]
             ELSE [seal |-> rnd.iv \o XORKeyStream(key, rnd.iv,
                                          PutUint64(Unix(exp)) \o mac \o data),
                   err |-> "nil"]

\* Unseal working on the caller's bytes instead of a copy of them
UnsealInPlace(auth, key, seal, tnow) ==
    IF Len(seal) < MacEnd
    THEN [data |-> seal, err |-> "SEAL_UNDERFLOW", arg |-> seal]
    ELSE IF NewCipherFails(key) THEN [data |-> <<>>, err |-> "key", arg |-> seal]
    ELSE LET iv == SubSeq(seal, 1, IvEnd)
             plain == iv \o XORKeyStream(key, iv, SubSeq(seal, IvEnd + 1, Len(seal)))
             expiry == Int64(SubSeq(plain, IvEnd + 1, ExpEnd))
             data == SubSeq(plain, MacEnd + 1, Len(plain))
         IN  IF SubSeq(plain, ExpEnd + 1, MacEnd)
                    # Hmac(auth, SubSeq(plain, 1, ExpEnd) \o data)
             THEN [data |-> <<>>, err |-> "SEAL_MISMATCH", arg |-> plain]
             ELSE IF tnow > AtSecond(expiry)
             THEN [data |-> <<>>, err |-> "SEAL_EXPIRED", arg |-> plain]
             ELSE [data |-> data, err |-> "nil", arg |-> plain]

\* Unseal at the time tnow: what it returns, and arg, the caller's bytes as
\* they are after the call
Unseal(auth, key, seal, tnow) ==
    IF Len(seal) < MacEnd
    THEN [data |-> seal, err |-> "SEAL_UNDERFLOW", arg |-> seal]
    ELSE IF NewCipherFails(key) THEN [data |-> <<>>, err |-> "key", arg |-> seal]
    ELSE LET iv == SubSeq(seal, 1, IvEnd)
             plain == iv \o XORKeyStream(key, iv, SubSeq(seal, IvEnd + 1, Len(seal)))
             expiry == Int64(SubSeq(plain, IvEnd + 1, ExpEnd))
             data == SubSeq(plain, MacEnd + 1, Len(plain))
         IN  IF SubSeq(plain, ExpEnd + 1, MacEnd)
                    # Hmac(auth, SubSeq(plain, 1, ExpEnd) \o data)
             THEN [data |-> <<>>, err |-> "SEAL_MISMATCH", arg |-> seal]
             ELSE IF tnow > AtSecond(expiry)
             THEN [data |-> <<>>, err |-> "SEAL_EXPIRED", arg |-> seal]
             ELSE [data |-> data, err |-> "nil", arg |-> seal]

\* the arguments tried
Ticks == (0 - MaxTick) .. MaxTick
Auths == {Zeros(16), <<7, 9>>}
Keys == {Zeros(16), [i \in 1 .. 32 |-> 255], <<1, 2, 3>>}
DataBytes == {104, 255}
Datas == UNION {[1 .. n -> DataBytes] : n \in 0 .. MaxData}
Rnds == { [err |-> FALSE, iv |-> Zeros(IvEnd)],
          [err |-> FALSE, iv |-> [i \in 1 .. IvEnd |-> (i * 37) % 256]],
          [err |-> TRUE, iv |-> Zeros(IvEnd)] }

\* seal, err := Seal(auth, key, data, exp)
DoSeal ==
    /\ qpc = "start"
    /\ sOut' = Seal(sIn.auth, sIn.key, sIn.data, sIn.exp, sIn.rnd)
    /\ held' = sOut'.seal
    /\ qpc' = "sealed"
    /\ UNCHANGED <<sIn, uNow, uOut>>
    /\ UNCHANGED <<coordVars, stalkerVars, serviceVars>>

\* data, err = Unseal(auth, key, seal), called at the time tnow
DoUnseal(tnow) ==
    /\ qpc = "sealed"
    /\ LET u == Unseal(sIn.auth, sIn.key, held, tnow) IN
       /\ uOut' = [data |-> u.data, err |-> u.err]
       /\ held' = u.arg
    /\ uNow' = tnow
    /\ qpc' = "unsealed"
    /\ UNCHANGED <<sIn, sOut>>
    /\ UNCHANGED <<coordVars, stalkerVars, serviceVars>>

InitSeal ==
    /\ qpc = "start"
    /\ sIn \in [auth : Auths, key : Keys, data : Datas, exp : Ticks, rnd : Rnds]
    /\ sOut = <<>>
    /\ held = <<>>
    /\ uNow = 0
    /\ uOut = <<>>
    /\ ServiceIdle
    /\ AppIdle

NextSeal ==
    \/ DoSeal
    \/ \E tnow \in Ticks : DoUnseal(tnow)

\* one Seal and one Unseal of what it returned
SpecSeal == InitSeal /\ [][NextSeal]_vars

(* ------------------------------ properties ----------------------------- *)
InSeq(x, seq) == \E i \in 1 .. Len(seq) : seq[i] = x
NoRepeat(seq) == \A i, j \in 1 .. Len(seq) : seq[i] = seq[j] => i = j
Done(c) == wpc[c] = "done"
\* the clock as the loop had it when it took c's ticket
ClockAtTake(c) == clocks[takenAt[c] + 1]
\* the loop is in the middle of a release / of an immediate reply
Releasing == cpc = "send" /\ clear
Answering == cpc = "send" /\ ~clear

\* C1 (immediate return): a ticket the loop takes with a baseline below the
\* clock C is never put in the pending set; the loop iteration that took it
\* is the one that sends on it, and the value sent and received is exactly C.
ImmediateReturn ==
    \A c \in Callers :
        (Taken(c) /\ tkt[c] < ClockAtTake(c)) =>
            /\ ~InSeq(c, Pending)
            /\ Done(c) => t2[c] = ClockAtTake(c)
            /\ ~Done(c) => /\ Answering
                           /\ outbox = <<[to |-> c, val |-> ClockAtTake(c)]>>
                           /\ Clock = ClockAtTake(c)
                           /\ takenAt[c] = Len(clocks) - 1

\* a caller has been answered at once with the clock, above its baseline
ImmediateReturnWitness ==
    \E c \in Callers :
        /\ Done(c)
        /\ tkt[c] < ClockAtTake(c)
        /\ t2[c] = ClockAtTake(c)
        /\ tkt[c] = 500

\* the shape of a release in progress: the tickets already served hold the
\* clock, the others are exactly what is left to send, each with the clock
ReleaseShape ==
    Releasing =>
        LET n == Len(Pending)
            k == n - Len(outbox)
        IN  /\ k >= 0
            /\ \A i \in 1 .. n :
                  IF i <= k
                  THEN Done(Pending[i]) /\ t2[Pending[i]] = Clock
                  ELSE /\ ~Done(Pending[i])
                       /\ outbox[i - k] = [to |-> Pending[i], val |-> Clock]

\* C2 (barrier release): from the event that sets the clock to C' until the
\* release ends, the pending set and the clock do not change whatever
\* registrations arrive meanwhile; every ticket that was pending receives
\* exactly C', and the pending set is empty when the release ends.
BarrierRelease ==
    [][ /\ ReleaseShape'
        /\ (cpc = "select" /\ Releasing') =>
               /\ Pending' = Pending
               /\ Len(outbox') = Len(Pending)
               /\ Clock' = clocks'[Len(clocks')]
        /\ Releasing =>
               /\ Clock' = Clock
               /\ Releasing' => Pending' = Pending
               /\ ~Releasing' =>
                     /\ cpc' = "select"
                     /\ Pending' = <<>>
                     /\ \A i \in 1 .. Len(Pending) :
                            /\ wpc'[Pending[i]] = "done"
                            /\ t2'[Pending[i]] = Clock
      ]_vars

\* two tickets are being released with one value while a third registers
BarrierReleaseWitness ==
    /\ Releasing
    /\ Len(Pending) = 2
    /\ Len(outbox) = 1
    /\ Done(Pending[1])
    /\ t2[Pending[1]] = 1000
    /\ browsers # <<>>

\* the timestamps of the events so far are non-decreasing. processBrowsers
\* stamps an event with the wall clock's reading when it handles it, after a
\* first reading when it starts; Watcher takes any ModTime as it comes.
NonDecreasing(seq) == \A i, j \in 1 .. Len(seq) : i <= j => seq[i] <= seq[j]
TimestampsOrdered == variant = "Watcher" \/ NonDecreasing(clocks)

OneReplyPerTicket ==
    /\ NoRepeat(Pending)
    /\ NoRepeat(outbox)
    /\ \A i \in 1 .. Len(outbox) :
          ~Done(outbox[i].to) /\ t2[outbox[i].to] = None
    /\ \A c \in Callers : Done(c) <=> t2[c] # None
    /\ cpc # "send" => \A i \in 1 .. Len(Pending) : ~Done(Pending[i])
    /\ \A c \in Callers :
          (Taken(c) /\ ~Done(c)) =>
              (InSeq(c, Pending) \/ \E i \in 1 .. Len(outbox) : outbox[i].to = c)
    /\ \A c \in Callers :
          (InSeq(c, Pending) /\ \E i \in 1 .. Len(outbox) : outbox[i].to = c)
              => Releasing

\* a released caller and an answered-at-once caller, and a ticket waiting
OneReplyPerTicketWitness ==
    /\ cpc = "select"
    /\ Pending # <<>>
    /\ \E c, d \in Callers :
          /\ Done(c) /\ tkt[c] >= ClockAtTake(c)
          /\ Done(d) /\ tkt[d] < ClockAtTake(d)

\* the events the stalker has handled so far
Handled == SubSeq(delivered, 1, Len(delivered) - Len(fsEvent))
RECURSIVE CountIn(_, _)
CountIn(x, seq) ==
    IF seq = <<>> THEN 0
    ELSE (IF Head(seq) = x THEN 1 ELSE 0) + CountIn(x, Tail(seq))
RECURSIVE CountOn(_, _)
CountOn(p, events) ==
    IF events = <<>> THEN 0
    ELSE (IF Head(events).Name = p THEN 1 ELSE 0) + CountOn(p, Tail(events))
Requested(p) == p \in DOMAIN req /\ req[p]

\* C5 (filtering): every path on the output stream was passed to Stalk and
\* is a registry entry marked requested; whatever the kinds of the events
\* handled, none on an unregistered or ancestor-only path is on the stream.
FilteringCorrect ==
    /\ \A i \in 1 .. Len(ch) : ch[i] \in targets /\ Requested(ch[i])
    /\ \A p \in Paths : ~Requested(p) => CountIn(p, ch) = 0

\* events on an unregistered path, an ancestor and a target were handled
FilteringWitness ==
    /\ mpc = "run"
    /\ fsEvent = <<>>
    /\ Len(delivered) = 3
    /\ \E i \in 1 .. 3 : delivered[i].Name \notin DOMAIN req
    /\ \E i \in 1 .. 3 :
          delivered[i].Name \in DOMAIN req /\ ~req[delivered[i].Name]
    /\ Len(ch) = 1

\* a requested path was removed and created again, and both events handled
Replaced(p) ==
    /\ mpc = "run"
    /\ Requested(p)
    /\ Len(Handled) >= 2
    /\ Handled[1] = [Name |-> p, kind |-> "delete"]
    /\ Handled[2] = [Name |-> p, kind |-> "create"]

Below(dir) == {t \in targets : dir \in Ancestors(t)}

\* C7 (directory dedup): all through Stalk's loop, a directory that two or
\* more of the paths given so far share as an ancestor has had exactly one
\* Watch call, in whatever order and however often the paths were given.
DirectoryDedup ==
    (mpc = "loop" /\ ~fsNil) =>
        \A dir \in Paths :
            (Below(dir) # {} /\ nTargets >= 2) => calls[dir] = 1

\* two siblings were given and their directory was registered once
DirectoryDedupWitness ==
    /\ mpc = "loop"
    /\ ~fsNil
    /\ targets = {<<"d", "a">>, <<"d", "b">>}
    /\ calls[<<"d">>] = 1
    /\ calls[Root] = 1

\* the registry Stalk must have built for the paths it was given
Chain == targets \cup UNION {Ancestors(t) : t \in targets}

\* C8 as claimed: the registry holds the targets and their ancestors below
\* the root, and not the root.
AncestorChainBelowRoot ==
    mpc = "run" => DOMAIN req = Chain \ {Root}

\* C8 (ancestor chain, amended): when Stalk returns, the registry holds every
\* target and every ancestor directory of it, the root included, and
\* exactly one Watch call has been made for each registry entry and none for
\* any other path.
AncestorChain ==
    /\ (mpc \in {"loop", "run"} /\ ~fsNil) => DOMAIN req = Chain
    /\ mpc = "run" => (targets # {} => Root \in DOMAIN req)
    /\ (mpc = "loop" /\ ~fsNil) =>
          \A p \in Paths : calls[p] = IF p \in DOMAIN req THEN 1 ELSE 0

\* Stalk has returned for a file and a file of another directory
AncestorChainWitness ==
    /\ mpc = "run"
    /\ targets = {<<"d", "a">>, <<"e">>}
    /\ DOMAIN req = {<<"d", "a">>, <<"d">>, <<"e">>, Root}
    /\ delivered = <<>>
    /\ \A p \in DOMAIN req : calls[p] = 1

\* C9 (end-to-end scenario): with the clock at 0, caller A's Wait(0) is
\* suspended; an event that sets the clock to 1000 releases A with 1000;
\* B's Wait(500), taken after it, is answered 1000 at once; C's Wait(1000),
\* taken after it, is suspended for as long as no other event is handled.
Scenario ==
    (Len(clocks) >= 1 /\ clocks[1] = 0 /\ Taken(1) /\ tkt[1] = 0
         /\ takenAt[1] = 0) =>
        /\ Len(clocks) = 1 => (InSeq(1, Pending) /\ ~Done(1) /\ t2[1] = None)
        /\ (Len(clocks) >= 2 /\ clocks[2] = 1000) =>
              /\ Done(1) => t2[1] = 1000
              /\ ~Done(1) => (Releasing /\ InSeq([to |-> 1, val |-> 1000], outbox))
              /\ (Taken(2) /\ tkt[2] = 500 /\ takenAt[2] = 1) =>
                    /\ ~InSeq(2, Pending)
                    /\ Done(2) => t2[2] = 1000
                    /\ ~Done(2) => outbox = <<[to |-> 2, val |-> 1000]>>
              /\ (Taken(3) /\ tkt[3] = 1000 /\ takenAt[3] = 1
                     /\ Len(clocks) = 2) =>
                    /\ InSeq(3, Pending)
                    /\ ~Done(3)
                    /\ t2[3] = None

\* the scenario has run to its end: A and B hold 1000, C waits
ScenarioWitness ==
    /\ clocks = <<0, 1000>>
    /\ tkt = <<0, 500, 1000>>
    /\ takenAt = <<0, 1, 1>>
    /\ t2 = <<1000, 1000, None>>
    /\ wpc = <<"done", "done", "recv">>
    /\ Pending = <<3>>
    /\ cpc = "select"
    /\ fsEvent = <<>>
    /\ ch = <<>>

\* C10 as claimed: when Stalk returns after a Watch call of its loop was
\* rejected, it returns an error, hands out no stream and leaves no worker.
FatalRegistrationFailure ==
    [][ (mpc = "loop" /\ rejected # {} /\ mpc' # "loop") =>
            (mpc' = "failed" /\ ~stream' /\ ~worker')
      ]_vars

\* C11 as claimed (setup error): when Stalk ends after the notification
\* subsystem could not be created, or after a path could not be made
\* absolute, it ends by returning a non-nil error, with no Watch call made in
\* that step and no worker started.
SetupError ==
    [][ (mpc = "loop" /\ mpc' # "loop"
             /\ (fsNil \/ (nTargets' = nTargets + 1 /\ err')))
            => (mpc' = "failed" /\ err' /\ ~worker' /\ calls' = calls)
      ]_vars

\* the loop that reads the subsystem's channels has handled an error
ErrorSeen == \E i \in 1 .. Len(log) : log[i].op = "error"

\* C12 (runtime watch errors are absorbed): the step that handles an error
\* of the notification subsystem leaves the registry, the subscriptions and
\* the stream as they were, the stream open and the worker running, and
\* changes nothing of the coordinator or of a waiting caller; and an event on
\* a requested path handled after an error still goes out on the stream.
WatchErrorsAbsorbed ==
    [][ /\ fsError' < fsError =>
              /\ req' = req /\ watches' = watches /\ calls' = calls
              /\ ch' = ch /\ ~chClosed' /\ stream' = stream /\ worker' = worker
              /\ UNCHANGED coordVars
        /\ (ErrorSeen /\ worker /\ Len(fsEvent') < Len(fsEvent)
               /\ Requested(Head(fsEvent).Name)) =>
              ch' = Append(ch, Head(fsEvent).Name)
      ]_vars

\* an error was handled while a caller waited; the event after it went out
\* on the stream and released the caller
WatchErrorsAbsorbedWitness ==
    /\ variant = "processBrowsers"
    /\ log = <<[op |-> "error"], [op |-> "emit", path |-> Target]>>
    /\ takenAt[1] = 0
    /\ tkt[1] >= clocks[1]
    /\ Len(clocks) = 2
    /\ Done(1)
    /\ t2[1] = clocks[2]

\* C13 (Wait has no error path): no result channel is ever closed, no caller
\* is turned away, and a caller that has completed holds a timestamp: a
\* value the clock has had.
NoErrorPath ==
    /\ closed = {}
    /\ \A c \in Callers :
          /\ wpc[c] \in {"idle", "sent", "recv", "done"}
          /\ Done(c) => \E k \in 1 .. Len(clocks) : t2[c] = clocks[k]

\* every caller has completed, the first two released together and the
\* third answered at once
NoErrorPathWitness ==
    /\ \A c \in Callers : Done(c)
    /\ takenAt[1] = 0 /\ takenAt[2] = 0 /\ takenAt[3] = 1
    /\ t2[1] = t2[2]
    /\ tkt[3] < ClockAtTake(3)

\* C14 as claimed (controlled shutdown): once Run has returned, the count of
\* requests in flight is zero and no request is being served, whatever the
\* order of ServeHTTP's Add and Done and of waitPending.
ControlledShutdown ==
    rpc = "returned" =>
        /\ wg = 0
        /\ \A c \in Conns : conn[c] # "serving"

\* Seal returned a seal and Unseal has been called on it
RoundTrip == qpc = "unsealed" /\ sOut.err = "nil"

\* C15 as claimed: Unseal returns the data and no error whenever exp is
\* later than the time of the Unseal call, and leaves the sealed bytes alone.
RoundTripBeforeExp ==
    (RoundTrip /\ uNow < sIn.exp) =>
        (uOut = [data |-> sIn.data, err |-> "nil"] /\ held = sOut.seal)

\* C15 (round trip, amended): the seal carries exp cut down to its whole
\* second. Unseal returns the data and no error when the time of its call is
\* not later than that second, SEAL_EXPIRED otherwise, also when exp itself is
\* later than the call; it never changes the sealed bytes it was given.
RoundTripToTheSecond ==
    RoundTrip =>
        /\ held = sOut.seal
        /\ Len(sOut.seal) = MacEnd + Len(sIn.data)
        /\ uNow <= AtSecond(Unix(sIn.exp)) =>
               uOut = [data |-> sIn.data, err |-> "nil"]
        /\ uNow > AtSecond(Unix(sIn.exp)) =>
               uOut = [data |-> <<>>, err |-> "SEAL_EXPIRED"]

\* data of two bytes came back from a seal that does not show them, opened
\* before an expiry that is a time before the epoch
RoundTripWitness ==
    /\ RoundTrip
    /\ Len(sIn.data) = 2
    /\ sIn.exp < 0
    /\ uNow < sIn.exp
    /\ uOut = [data |-> sIn.data, err |-> "nil"]
    /\ SubSeq(sOut.seal, MacEnd + 1, MacEnd + 2) # sIn.data

\* the loop has just handled an event and is back at its select with the
\* clock and the waiting tickets as they were
Ignored ==
    /\ Clock' = Clock
    /\ Pending' = Pending
    /\ outbox' = <<>>
    /\ cpc' = "select"

\* C16 as claimed (stale events are ignored): an event whose timestamp, the
\* wall clock's reading in processBrowsers and the file's ModTime in Watcher,
\* is below the clock leaves the clock and the pending set as they were.
StaleEventsIgnored ==
    [][ /\ (PBEvent /\ now < ts) => Ignored
        /\ \A st \in Stats :
              (WEvent(st) /\ ~st.err /\ st.ModTime < time) => Ignored
      ]_vars

\* the loop has just handled an event and started to send the clock, as it
\* was before the event, to every waiting ticket
ReleasedUnchanged ==
    /\ Clock' = Clock
    /\ IF Pending = <<>>
       THEN Pending' = <<>> /\ outbox' = <<>> /\ cpc' = "select"
       ELSE /\ Releasing'
            /\ Pending' = Pending
            /\ outbox' = [i \in 1 .. Len(Pending) |->
                              [to |-> Pending[i], val |-> Clock]]

\* C17 (same-timestamp events still release): an event whose timestamp
\* equals the clock leaves the clock's value as it was and sends that value
\* to every ticket of the pending set; when the last has received it the
\* pending set is empty.
SameTimestampReleases ==
    [][ /\ (PBEvent /\ now = ts) => ReleasedUnchanged
        /\ \A st \in Stats :
              (WEvent(st) /\ ~st.err /\ st.ModTime = time) => ReleasedUnchanged
        /\ (Releasing /\ ~Releasing') =>
              /\ Pending' = <<>>
              /\ \A j \in 1 .. Len(Pending) :
                     wpc'[Pending[j]] = "done" /\ t2'[Pending[j]] = Clock
      ]_vars

\* two callers waited with the clock's value as baseline and were released
\* by an event that left the clock at that value
SameTimestampWitness ==
    /\ Len(clocks) = 2
    /\ clocks[1] = clocks[2]
    /\ cpc = "select"
    /\ Pending = <<>>
    /\ \A c \in {1, 2} :
          Done(c) /\ takenAt[c] = 0 /\ tkt[c] = clocks[1] /\ t2[c] = clocks[1]

\* C18 as claimed (reply reflects a post-registration event): the value a
\* caller has received is the clock as an event left it that was handled
\* after the caller's ticket was taken; nobody is answered before an event.
ReplyAfterRegistration ==
    \A c \in Callers :
        Done(c) => \E k \in (takenAt[c] + 2) .. Len(clocks) : t2[c] = clocks[k]

\* C18 (amended): a caller that was suspended receives the clock as an event
\* left it that was handled after its ticket was taken. A caller whose
\* baseline is below the clock is answered at once with the clock as it stood
\* when its ticket was taken: the value of the last event handled before its
\* registration or, when no event has been handled, the clock's first value.
ReplyIsTheClock ==
    \A c \in Callers :
        Done(c) =>
            IF tkt[c] < ClockAtTake(c)
            THEN t2[c] = ClockAtTake(c)
            ELSE \E k \in (takenAt[c] + 2) .. Len(clocks) : t2[c] = clocks[k]

\* before any event, caller 1 was answered at once with the clock's first
\* value; caller 2 waited and was released by the first event
ReplyIsTheClockWitness ==
    /\ Len(clocks) = 2
    /\ takenAt[1] = 0 /\ Done(1) /\ tkt[1] < clocks[1] /\ t2[1] = clocks[1]
    /\ takenAt[2] = 0 /\ Done(2) /\ tkt[2] >= clocks[1] /\ t2[2] = clocks[2]
    /\ clocks[1] # clocks[2]

\* C19 as claimed (the coordinator never blocks on a caller): whenever the
\* loop is in a reply send, the caller is already at its receive, so that the
\* send goes through without the loop waiting.
NeverBlocksOnCaller ==
    cpc = "send" => wpc[Head(outbox).to] = "recv"

\* C19 (amended): the loop is suspended at its select or in a reply send.
\* A reply send waits for its caller, the result channel having no buffer;
\* that caller has handed over its ticket and not been answered, so that it is
\* at its receive or has only that receive left to reach.
SendsAreMatched ==
    /\ cpc \in {"off", "select", "send"}
    /\ cpc = "send" <=> outbox # <<>>
    /\ \A i \in 1 .. Len(outbox) : wpc[outbox[i].to] \in {"sent", "recv"}
    /\ \A c \in Callers : wpc[c] \in {"sent", "recv"} => t2[c] = None

\* the loop is held in a reply send by a caller that has not reached its
\* receive, while another ticket waits in the channel
SendsAreMatchedWitness ==
    /\ cpc = "send"
    /\ wpc[Head(outbox).to] = "sent"
    /\ browsers # <<>>

\* the Watch calls processEvent has made for p, and the events of one kind
\* handled on p
RECURSIVE ReWatches(_, _)
ReWatches(p, l) ==
    IF l = <<>> THEN 0
    ELSE (IF Head(l).op = "watch" /\ Head(l).path = p THEN 1 ELSE 0)
             + ReWatches(p, Tail(l))
RECURSIVE CountKind(_, _, _)
CountKind(p, kind, events) ==
    IF events = <<>> THEN 0
    ELSE (IF Head(events) = [Name |-> p, kind |-> kind] THEN 1 ELSE 0)
             + CountKind(p, kind, Tail(events))

\* C20 as claimed (re-watch on create): the worker has made one Watch call
\* for each created event handled on a requested path and none for any other
\* path, ancestor-only registry entries included.
ReWatchRequestedOnly ==
    mpc = "run" =>
        \A p \in Paths :
            ReWatches(p, log) =
                IF Requested(p) THEN CountKind(p, "create", Handled) ELSE 0

\* C20 (amended): the worker has made one Watch call for each created event
\* handled on a registry entry, requested or ancestor-only, and none for an
\* unregistered path; these are all the Watch calls made since Stalk's own;
\* and for a requested path the call comes right before the path goes out.
ReWatchOnCreate ==
    mpc = "run" =>
        /\ \A p \in Paths :
              /\ ReWatches(p, log) =
                     IF p \in DOMAIN req
                     THEN CountKind(p, "create", Handled) ELSE 0
              /\ calls[p] = (IF p \in DOMAIN req THEN 1 ELSE 0) + ReWatches(p, log)
        /\ \A j \in 1 .. Len(log) :
              (log[j].op = "watch" /\ Requested(log[j].path)) =>
                  /\ j < Len(log)
                  /\ log[j + 1] = [op |-> "emit", path |-> log[j].path]

\* a directory that is in the registry as an ancestor only was removed and
\* created again, and the worker watched it again without emitting it
ReWatchOnCreateWitness ==
    /\ mpc = "run"
    /\ fsEvent = <<>>
    /\ \E p \in DOMAIN req :
          /\ ~req[p]
          /\ log = <<[op |-> "watch", path |-> p]>>
          /\ calls[p] = 2
          /\ p \in watches
          /\ ch = <<>>

\* C21 (requested flag is order-independent): once Stalk has returned, the
\* registry holds every target, and an entry is marked requested exactly if
\* its path is the absolute form of a path that was passed, whatever the order
\* of the list, a target above another one and a repeated target included.
RequestedFlag ==
    mpc = "run" =>
        /\ targets \subseteq DOMAIN req
        /\ \A p \in DOMAIN req : req[p] <=> p \in targets

\* Stalk has returned from a list of a file and the directory it is in
RequestedFlagWitness ==
    /\ mpc = "run"
    /\ targets = {<<"d">>, <<"d", "a">>}
    /\ req[<<"d">>] /\ req[<<"d", "a">>] /\ ~req[Root]

\* Callers are numbered in the order in which they hand their tickets over;
\* the ticket channel is first in, first out.
Ascending(seq) == \A i, j \in 1 .. Len(seq) : i < j => seq[i] < seq[j]

\* the callers the loop still has to send to, in the order of the sends
Recipients == [i \in 1 .. Len(outbox) |-> outbox[i].to]

\* C22 (release order is arrival order): the loop takes the tickets in the
\* order they were handed over, the pending sequence keeps the tickets in the
\* order they were taken, and a release replies in that order: the replies
\* still to send are the tail of the pending sequence and the callers already
\* answered are its head, whatever the baselines are.
ReleaseInArrivalOrder ==
    /\ Ascending([i \in 1 .. Len(browsers) |-> browsers[i].Result])
    /\ \A c, d \in Callers : Taken(c) /\ InBrowsers(d) => c < d
    /\ Ascending(Pending)
    /\ Releasing =>
          /\ Len(Recipients) <= Len(Pending)
          /\ Recipients = SubSeq(Pending, Len(Pending) - Len(Recipients) + 1,
                                 Len(Pending))
          /\ \A i \in 1 .. Len(Pending) - Len(Recipients) : Done(Pending[i])

\* a release has answered the ticket taken first and not yet the one taken
\* second, whose baseline is the lower one
ReleaseInArrivalOrderWitness ==
    /\ Releasing
    /\ Len(Pending) = 2
    /\ tkt[Pending[1]] > tkt[Pending[2]]
    /\ Done(Pending[1])
    /\ Recipients = <<Pending[2]>>

\* the loop goes on with exactly one send, the clock to caller c
OnlyReplyTo(c) ==
    /\ Clock' = Clock
    /\ Pending' = Pending
    /\ outbox' = <<[to |-> c, val |-> Clock]>>
    /\ ~clear'

\* C23 (a stale-baseline Wait is a pure state check): taking a ticket whose
\* baseline is below the clock leaves the clock and the pending sequence as
\* they were and makes the reply to that ticket the loop's only send; the
\* delivery of that reply changes neither of them and answers no other caller.
StaleWaitIsPure ==
    [][ /\ (PBTicket /\ Head(browsers).Time < ts)
            => OnlyReplyTo(Head(browsers).Result)
        /\ \A c \in Callers, b \in Times :
              (WAdd(c, b) /\ b < time) => OnlyReplyTo(c)
        /\ (Answering /\ Deliver) =>
              /\ Clock' = Clock
              /\ Pending' = Pending
              /\ wpc'[Head(outbox).to] = "done"
              /\ t2'[Head(outbox).to] = Clock
              /\ \A d \in Callers \ {Head(outbox).to} :
                    wpc'[d] = wpc[d] /\ t2'[d] = t2[d] ]_vars

\* a stale Wait has been answered while a ticket taken before it still waits
StaleWaitIsPureWitness ==
    /\ cpc = "select"
    /\ \E c, d \in Callers :
          /\ d < c
          /\ InSeq(d, Pending)
          /\ Done(c)
          /\ tkt[c] < ClockAtTake(c)
          /\ t2[c] = Clock

\* C24 (no cancellation path): a step of the coordinator leaves the pending
\* sequence as it is, or appends one ticket that has just been taken and whose
\* baseline is not below the clock, or empties it at the end of a release; a
\* ticket never leaves the sequence on its own.
NoCancellation ==
    [][ \/ Pending' = Pending
        \/ \E c \in Callers :
              /\ Pending' = Append(Pending, c)
              /\ ~Taken(c) /\ Taken(c)'
              /\ tkt'[c] >= Clock
              /\ Clock' = Clock
        \/ /\ Pending' = <<>>
           /\ Releasing
           /\ cpc' = "select" ]_vars

\* a ticket has stayed pending through an event that did not qualify and a
\* second one has been appended behind it
NoCancellationWitness ==
    /\ Len(clocks) = 3
    /\ Len(Pending) = 2
    /\ takenAt[Pending[1]] = 1
    /\ takenAt[Pending[2]] = 2

\* C26 (pending tickets are never already satisfied): whenever the loop is not
\* in the middle of a release, every ticket of the pending sequence has a
\* baseline that is not below the clock; in a release, which has already set
\* the clock, every ticket of the sequence has had its reply or is one of the
\* replies the loop is sending.
PendingNotSatisfied ==
    /\ ~Releasing =>
          \A i \in 1 .. Len(Pending) : tkt[Pending[i]] >= Clock
    /\ Releasing =>
          \A i \in 1 .. Len(Pending) :
              Done(Pending[i]) \/ InSeq(Pending[i], Recipients)

\* after a change the loop waits with a ticket whose baseline is the clock
PendingNotSatisfiedWitness ==
    /\ cpc = "select"
    /\ Len(clocks) >= 2
    /\ Clock > 0
    /\ Pending # <<>>
    /\ \A i \in 1 .. Len(Pending) : tkt[Pending[i]] = Clock

\* the steps of a Wait caller alone, of the stalker and its file system, and
\* of the coordinator loop
CallerStep == (\E c \in Callers, b \in Times : Send(c, b)) \/ (\E c \in Callers : Park(c))
StalkerStep ==
    \/ \E p \in Paths, k \in Kinds : FsOp(p, k)
    \/ ProcessEvent
    \/ FsErr
    \/ ProcessError
CoordinatorStep ==
    \/ PBStart \/ PBTicket \/ PBEvent
    \/ WStart \/ (\E c \in Callers, b \in Times : WAdd(c, b))
    \/ (\E st \in Stats : WEvent(st)) \/ WError
    \/ Deliver

\* C29 (single-writer state ownership): a step of a Wait caller or of the
\* stalker changes neither the clock nor the pending sequence, a step of the
\* coordinator or of a caller changes nothing of the stalker's registry, and
\* the stalker acts on the coordinator only by appending a path to the event
\* stream, which the coordinator only ever takes from.
SingleWriter ==
    [][ /\ CallerStep =>
              /\ UNCHANGED <<ts, pending, time, tix, outbox, clear, cpc>>
              /\ UNCHANGED <<req, watches, calls, rejected, ch>>
        /\ StalkerStep =>
              /\ UNCHANGED coordVars
              /\ ch' = ch \/ \E p \in Paths : ch' = Append(ch, p)
        /\ CoordinatorStep =>
              /\ UNCHANGED <<req, watches, calls, rejected>>
              /\ ch' = ch \/ (ch # <<>> /\ ch' = Tail(ch)) ]_vars

\* the stalker has emitted two changes, the loop has taken one of them and
\* released a caller with it, and the registry is as Stalk left it
SingleWriterWitness ==
    /\ variant = "processBrowsers"
    /\ Len(clocks) = 2
    /\ Len(ch) = 1
    /\ \E c \in Callers : Done(c) /\ takenAt[c] = 0 /\ tkt[c] >= clocks[1]
    /\ req[Target]
    /\ \A p \in DOMAIN req \ {Target} : ~req[p]

\* the loop takes the ticket of the page's reader, whose baseline is the
\* page's Time, after it has handled a change that came after the rendering
TakenAfterChange ==
    /\ PBTicket
    /\ Head(browsers).Result = doc.to
    /\ Head(browsers).Time = doc.Time
    /\ Len(clocks) >= 2
    /\ Len(clocks) > doc.seen

\* C28 (no missed change across the render/wait gap): a Wait whose baseline
\* is the second sampled by presentContent, taken after the loop has handled a
\* change that came after the sampling, is answered at once and not enqueued,
\* also when the change falls in the second of the sampling.
NoMissedChange ==
    [][ TakenAfterChange =>
          /\ pending' = pending
          /\ outbox' = <<[to |-> doc.to, val |-> ts]>> ]_vars

\* C25 (eventual release): with the loop and the callers scheduled fairly, a
\* ticket that is pending when the stalker's stream holds a change is
\* eventually answered with a timestamp, and an event that qualifies (any
\* event of the stalker; for the Watcher one whose file has a modification
\* time not below the clock) replies to every pending ticket: none outlives it.
EventualRelease ==
    /\ \A c \in Callers :
          (variant = "processBrowsers" /\ InSeq(c, pending) /\ ch # <<>>)
              ~> (Done(c) /\ t2[c] # None)
    /\ [][ /\ PBEvent => Recipients' = pending
            /\ \A st \in Stats :
                  (WEvent(st) /\ ~st.err /\ st.ModTime >= time)
                      => Recipients' = Pending ]_vars

\* a ticket that waited while a change was in the stream has been answered
\* with the time of that change
EventualReleaseWitness ==
    /\ variant = "processBrowsers"
    /\ cpc = "select"
    /\ ch = <<>>
    /\ \E c \in Callers :
          /\ Done(c)
          /\ tkt[c] >= ClockAtTake(c)
          /\ takenAt[c] + 2 = Len(clocks)
          /\ t2[c] = Clock

=============================================================================
